---- MODULE Spec2Model ----
(***************************************************************************)
(* Model of aws-resource-watcher: the reconciliation cycle of the Watcher  *)
(* (internal/watcher) with the shutdown that main drives, the Redis-backed *)
(* state store (internal/storage) and the paginated enumeration of one     *)
(* region (internal/aws).                                                  *)
(*                                                                         *)
(* Strings are modelled as sequences of tokens.  The tokens ":", "/" and   *)
(* "*" are the characters the code inspects; every other token stands for  *)
(* a run of characters the code never looks into.  The token set is        *)
(* prefix-free, so comparing two strings token by token in the order of    *)
(* Alphabet is the byte-wise comparison of Go.                             *)
(***************************************************************************)
EXTENDS Integers, Sequences, FiniteSets, TLC

\* ------------------------------------------------------------------ strings

\* The tokens, in ascending byte order of their first differing character.
Alphabet ==
  <<"*", "/", "123", ":", "arn", "aws", "ec2", "eu-west-1", "i-1", "i-2",
    "iam", "instance", "role", "us-east-1", "v-1", "volume">>

Rank(c) == CHOOSE i \in 1..Len(Alphabet) : Alphabet[i] = c

Range(s) == {s[i] : i \in 1..Len(s)}

RECURSIVE StrLess(_, _)
\* a < b on Go strings (byte-wise lexicographic order).
StrLess(a, b) ==
  IF b = <<>> THEN FALSE
  ELSE IF a = <<>> THEN TRUE
  ELSE IF Head(a) = Head(b) THEN StrLess(Tail(a), Tail(b))
  ELSE Rank(Head(a)) < Rank(Head(b))

HasPrefix(s, p) == Len(s) >= Len(p) /\ SubSeq(s, 1, Len(p)) = p

HasSuffix(s, p) == Len(s) >= Len(p) /\ SubSeq(s, Len(s) - Len(p) + 1, Len(s)) = p

TrimSuffix(s, p) == IF HasSuffix(s, p) THEN SubSeq(s, 1, Len(s) - Len(p)) ELSE s

RECURSIVE SplitAcc(_, _, _)
SplitAcc(s, parts, cur) ==
  IF s = <<>> THEN Append(parts, cur)
  ELSE IF Head(s) = ":" THEN SplitAcc(Tail(s), Append(parts, cur), <<>>)
  ELSE SplitAcc(Tail(s), parts, Append(cur, Head(s)))

\* strings.Split(s, ":"): the fields between the colons, empty fields kept.
Split(s) == SplitAcc(s, <<>>, <<>>)

RECURSIVE Insert(_, _)
Insert(x, sorted) ==
  IF sorted = <<>> THEN <<x>>
  ELSE IF StrLess(Head(sorted), x) THEN <<Head(sorted)>> \o Insert(x, Tail(sorted))
  ELSE <<x>> \o sorted

RECURSIVE SortStrings(_)
\* sort.Strings: the same elements (with multiplicity) in ascending order.
SortStrings(s) == IF s = <<>> THEN <<>> ELSE Insert(Head(s), SortStrings(Tail(s)))

RECURSIVE Reverse(_)
Reverse(s) == IF s = <<>> THEN <<>> ELSE Append(Reverse(Tail(s)), Head(s))

\* ------------------------------------------------------- identifier filter

\* Watcher.matchesResourcePattern
matchesResourcePattern(arnResource, patternResource) ==
  IF HasSuffix(patternResource, <<"/", "*">>)
  THEN LET resourceType == TrimSuffix(patternResource, <<"/", "*">>)
       IN HasPrefix(arnResource, resourceType \o <<"/">>)
          \/ HasPrefix(arnResource, resourceType \o <<":">>)
  ELSE IF HasSuffix(patternResource, <<":", "*">>)
  THEN LET resourceType == TrimSuffix(patternResource, <<":", "*">>)
       IN HasPrefix(arnResource, resourceType \o <<":">>)
          \/ HasPrefix(arnResource, resourceType \o <<"/">>)
  ELSE IF patternResource = <<"*">> THEN TRUE
  ELSE arnResource = patternResource

RECURSIVE matchFields_IgnoresRegion(_, _, _)
\* The loop comparing every field except the region (Go index 3).
matchFields_IgnoresRegion(arnParts, patternParts, i) ==
  IF i >= 6 THEN TRUE
  ELSE IF patternParts[i + 1] = <<>> \/ patternParts[i + 1] = <<"*">>
  THEN matchFields_IgnoresRegion(arnParts, patternParts, i + 1)
  ELSE IF i = 5 THEN matchesResourcePattern(arnParts[i + 1], patternParts[i + 1])
  ELSE IF i # 3 /\ arnParts[i + 1] # patternParts[i + 1] THEN FALSE
  ELSE matchFields_IgnoresRegion(arnParts, patternParts, i + 1)

RECURSIVE matchFields(_, _, _)
\* The loop of matchesARNPattern from Go index i (0-based) on.
matchFields(arnParts, patternParts, i) ==
  IF i >= 6 THEN TRUE
  ELSE IF patternParts[i + 1] = <<>> \/ patternParts[i + 1] = <<"*">>
  THEN matchFields(arnParts, patternParts, i + 1)
  ELSE IF i = 5 THEN matchesResourcePattern(arnParts[i + 1], patternParts[i + 1])
  ELSE IF arnParts[i + 1] # patternParts[i + 1] THEN FALSE
  ELSE matchFields(arnParts, patternParts, i + 1)

\* The length test applied to the pattern only; the fields an identifier
\* lacks read as empty.
matchesARNPattern_PatternOnly(arn, pattern) ==
  LET arnParts == Split(arn) \o <<<<>>, <<>>, <<>>, <<>>, <<>>, <<>>>>
      patternParts == Split(pattern)
  IN IF Len(patternParts) < 6 THEN FALSE
     ELSE matchFields(arnParts, patternParts, 0)

RECURSIVE AfterColons(_, _)
\* What follows the n-th colon of s.
AfterColons(s, n) ==
  IF n = 0 \/ s = <<>> THEN s
  ELSE IF Head(s) = ":" THEN AfterColons(Tail(s), n - 1)
  ELSE AfterColons(Tail(s), n)

\* The resource part of an identifier or pattern: what follows its fifth colon.
ResourceOf(s) == AfterColons(s, 5)

\* The resource compared as everything after the fifth colon.
matchesARNPattern_WholeResource(arn, pattern) ==
  LET arnParts == Split(arn)
      patternParts == Split(pattern)
  IN IF Len(arnParts) < 6 \/ Len(patternParts) < 6 THEN FALSE
     ELSE matchFields(SubSeq(arnParts, 1, 5) \o <<ResourceOf(arn)>>,
                      SubSeq(patternParts, 1, 5) \o <<ResourceOf(pattern)>>, 0)

\* Watcher.matchesARNPattern
matchesARNPattern(arn, pattern) ==
  LET arnParts == Split(arn)
      patternParts == Split(pattern)
  IN IF Len(arnParts) < 6 \/ Len(patternParts) < 6 THEN FALSE
     ELSE matchFields(arnParts, patternParts, 0)

\* The filter dropping an identifier only when every pattern matches it.
filterARNs_AllPatterns(arns, patterns) ==
  IF Len(patterns) = 0 THEN arns
  ELSE LET keep(arn) == ~ \A k \in 1..Len(patterns) : matchesARNPattern(arn, patterns[k])
       IN SelectSeq(arns, keep)

\* Watcher.filterARNs, with w.config.ARNIgnorePatterns as a parameter.
filterARNs(arns, patterns) ==
  IF Len(patterns) = 0 THEN arns
  ELSE LET keep(arn) == ~ \E k \in 1..Len(patterns) : matchesARNPattern(arn, patterns[k])
       IN SelectSeq(arns, keep)

\* ------------------------------------------------------------------- diff

\* compareResources without its membership tests.
compareResources_NoMembership(previous, current) == <<current, previous>>

\* compareResources reporting every current identifier as added.
compareResources_AddedAll(previous, current) ==
  LET currentSet == Range(current)
      isAdded(arn) == TRUE
      isRemoved(arn) == arn \notin currentSet
  IN <<SelectSeq(current, isAdded), SelectSeq(previous, isRemoved)>>

\* compareResources with the removed side tested against the wrong set.
compareResources_WrongSet(previous, current) ==
  LET previousSet == Range(previous)
      isAdded(arn) == arn \notin previousSet
      isRemoved(arn) == arn \notin previousSet
  IN <<SelectSeq(current, isAdded), SelectSeq(previous, isRemoved)>>

\* Watcher.compareResources: <<added, removed>>.
compareResources(previous, current) ==
  LET previousSet == Range(previous)
      currentSet == Range(current)
      isAdded(arn) == arn \notin previousSet
      isRemoved(arn) == arn \notin currentSet
  IN <<SelectSeq(current, isAdded), SelectSeq(previous, isRemoved)>>

\* ------------------------------------------------------------ state store

\* LPUSH key v1 .. vn: each value is pushed at the head, one after another.
LPush(list, values) == Reverse(values) \o list

\* SetResourceARNs sending nothing when the list to store is empty.
SetResourceARNs_KeepsOldWhenEmpty(list, arns, outcome) ==
  IF Len(arns) = 0 THEN list
  ELSE IF outcome \in {"ok", "err_applied"} THEN Reverse(arns)
  ELSE IF outcome = "err_del" THEN <<>>
  ELSE list

\* RedisStorage.SetResourceARNs on the stored list.  The pipeline (DEL, then
\* LPUSH when arns is non-empty) is not a transaction; Exec returns an error
\* when a command or the connection fails.  outcome is what the server applied:
\*   "ok"          both commands applied, Exec returns nil
\*   "err_none"    nothing applied, Exec returns an error
\*   "err_del"     only DEL applied, Exec returns an error
\*   "err_applied" both applied, the reply is lost, Exec returns an error
SetResourceARNs(list, arns, outcome) ==
  LET afterDel == <<>>
      afterPush == IF Len(arns) > 0 THEN LPush(afterDel, arns) ELSE afterDel
  IN CASE outcome = "ok" -> afterPush
       [] outcome = "err_applied" -> afterPush
       [] outcome = "err_del" -> afterDel
       [] OTHER -> list

SetOutcomes == {"ok", "err_none", "err_del", "err_applied"}

\* RedisStorage.GetResourceARNs: LRANGE key 0 -1 (an absent key is an empty list).
GetStoredARNs(list) == list

\* RedisStorage.IsFirstRun: EXISTS key = 0.  A Redis list is never empty, so the
\* key exists exactly when the list has an element.
IsFirstRun(list) == Len(list) = 0

\* ---------------------------------------------------------------- regions

R1 == <<"us-east-1">>
R2 == <<"eu-west-1">>

\* ec2 DescribeRegions, as returned by Client.GetAllRegions.
DiscoveredRegions == <<R1, R2>>

\* getRegionsToMonitor walking the include list instead of the discovered
\* regions.
getRegionsToMonitor_IncludeOrder(allRegions, include, exclude) ==
  LET discovered(region) == region \in Range(allRegions)
      notExcluded(region) == region \notin Range(exclude)
      regions == IF Len(include) > 0 THEN SelectSeq(include, discovered)
                 ELSE SelectSeq(allRegions, notExcluded)
  IN IF Len(regions) = 0 THEN [err |-> TRUE, regions |-> <<>>]
     ELSE [err |-> FALSE, regions |-> regions]

\* Watcher.getRegionsToMonitor: [err, regions].
getRegionsToMonitor(allRegions, include, exclude) ==
  LET included(region) == region \in Range(include)
      notExcluded(region) == region \notin Range(exclude)
      regions == IF Len(include) > 0 THEN SelectSeq(allRegions, included)
                 ELSE SelectSeq(allRegions, notExcluded)
  IN IF Len(regions) = 0 THEN [err |-> TRUE, regions |-> <<>>]
     ELSE [err |-> FALSE, regions |-> regions]

\* ------------------------------------------------------ the listing inputs

ArnI1 == <<"arn", ":", "aws", ":", "ec2", ":", "us-east-1", ":", "123", ":", "instance", "/", "i-1">>
ArnV1 == <<"arn", ":", "aws", ":", "ec2", ":", "us-east-1", ":", "123", ":", "volume", "/", "v-1">>
ArnI2 == <<"arn", ":", "aws", ":", "ec2", ":", "eu-west-1", ":", "123", ":", "instance", "/", "i-2">>
ArnRole == <<"arn", ":", "aws", ":", "iam", ":", ":", "123", ":", "role", "/", "i-1">>

PatVolumes == <<"arn", ":", "aws", ":", "ec2", ":", "*", ":", "*", ":", "volume", "/", "*">>

\* The region field of an identifier (field 3), <<>> for a global resource.
RegionOf(arn) == Split(arn)[4]

\* What the listing API of a region can return: the region's own resources
\* and the global ones.
ListingUniverse(region) ==
  {a \in {ArnI1, ArnV1, ArnI2, ArnRole} : RegionOf(a) = region \/ RegionOf(a) = <<>>}

\* Longest list a region's enumeration returns in the model.
MaxRegionLen == 2

\* The duplicate-free lists over S of length at most n.
DupFreeSeqs(S, n) ==
  UNION {{s \in [1..k -> S] : \A i, j \in 1..k : i # j => s[i] # s[j]} : k \in 0..n}

\* The results Client.GetResourceARNs can return without error for a region.
RegionResults(region) == DupFreeSeqs(ListingUniverse(region), MaxRegionLen)

\* ------------------------------------------------------------------ state

VARIABLES
  \* configuration (config.Config, immutable after Load)
  ignorePatterns, regionsInclude, regionsExclude,
  \* the goroutine running Watcher.Start and its locals
  pc, regions, regionIdx, allARNs, currentARNs, previousARNs,
  \* the Redis list aws:resources:<account>; <<>> when the key does not exist
  redisList,
  \* history of the cycle in progress (or of the last one, while waiting)
  fetched, failedRegions, path, notifyCount, notified, notifyFailed,
  writeCount, written, writeOk, storeAtStart, cycleResult,
  \* history of the whole run
  everWritten,
  \* main: its position, the context it cancels, the stop channel and the
  \* store connection that Stop closes, and the one-slot channel ticker.C
  mainPc, ctxDone, stopClosed, storeClosed, tickPending,
  \* what Start returned ("none" while it runs), and whether the cycle in
  \* progress had started when main called cancel()
  startErr, inFlightAtShutdown,
  \* one call of RedisStorage.SetResourceARNs as the server executes it, and
  \* the last answer the server gave to another client reading the same key
  storeCall, reader,
  \* one call of Client.GetResourceARNs
  ePc, requestCount, consecutiveEmptyResponses, clientARNs, seenARNs,
  nextToken, enumResult, enumErr, pagesRequested,
  \* history of the responses of the listing API in that call
  pageLog,
  \* one application of a pure function
  fn, args, result

configVars == <<ignorePatterns, regionsInclude, regionsExclude>>
localVars == <<pc, regions, regionIdx, allARNs, currentARNs, previousARNs>>
histVars ==
  <<fetched, failedRegions, path, notifyCount, notified, notifyFailed,
    writeCount, written, writeOk, storeAtStart, cycleResult, everWritten>>
lifeVars ==
  <<mainPc, ctxDone, stopClosed, storeClosed, tickPending, startErr,
    inFlightAtShutdown>>
storeVars == <<storeCall, reader>>
watcherVars == <<configVars, localVars, redisList, histVars, lifeVars, storeVars>>
enumVars ==
  <<ePc, requestCount, consecutiveEmptyResponses, clientARNs, seenARNs,
    nextToken, enumResult, enumErr, pagesRequested, pageLog>>
pureVars == <<fn, args, result>>
vars == <<watcherVars, enumVars, pureVars>>

\* No call of SetResourceARNs is followed command by command.
NoStoreCall == [state |-> "idle", arns |-> <<>>, before |-> <<>>, pending |-> <<>>]

\* The configurations config.Load can return in the model: with and without
\* an ignore pattern, with and without an include list; an include list in
\* another order than the discovery's, next to an exclude list; an exclude
\* list alone; an exclude list that leaves no region.
Configs ==
  {[patterns |-> p, include |-> i, exclude |-> <<>>] :
     p \in {<<>>, <<PatVolumes>>}, i \in {<<>>, <<R1>>}}
  \cup {[patterns |-> <<>>, include |-> <<R2, R1>>, exclude |-> <<R1>>],
        [patterns |-> <<>>, include |-> <<>>, exclude |-> <<R2>>],
        [patterns |-> <<>>, include |-> <<>>, exclude |-> <<R2, R1>>]}

\* The watcher before main calls Start.
WatcherInit ==
  /\ \E cfg \in Configs :
       /\ ignorePatterns = cfg.patterns
       /\ regionsInclude = cfg.include
       /\ regionsExclude = cfg.exclude
  /\ pc = "start"
  /\ regions = <<>>
  /\ regionIdx = 0
  /\ allARNs = <<>>
  /\ currentARNs = <<>>
  /\ previousARNs = <<>>
  /\ redisList = <<>>
  /\ fetched = [r \in Range(DiscoveredRegions) |-> <<>>]
  /\ failedRegions = {}
  /\ path = "none"
  /\ notifyCount = 0
  /\ notified = <<<<>>, <<>>>>
  /\ notifyFailed = FALSE
  /\ writeCount = 0
  /\ written = <<>>
  /\ writeOk = FALSE
  /\ storeAtStart = <<>>
  /\ cycleResult = "none"
  /\ everWritten = FALSE
  /\ mainPc = "waiting"
  /\ ctxDone = FALSE
  /\ stopClosed = FALSE
  /\ storeClosed = FALSE
  /\ tickPending = FALSE
  /\ startErr = "none"
  /\ inFlightAtShutdown = FALSE
  /\ storeCall = NoStoreCall
  /\ reader = <<>>

\* Longest run of consecutive pages repeating one identifier that is counted.
StreakCap == 3

\* The history of the API's responses before the first request:
\*   delivered  the identifiers returned on the pages so far
\*   disjoint   every page so far held at least one entry, no nil entry and
\*              no identifier of an earlier page
\*   last       the last response: "none", "error", "empty" (no entry),
\*              "known" (entries, none with a new identifier) or "new"
\*   token      the last page came with a non-nil PaginationToken
\*   zeroNew    the number of consecutive pages, up to the last one, without
\*              a new identifier
\*   streak     the number of consecutive pages, up to the last one, holding
\*              identifier 1 (counted up to StreakCap)
NoPages ==
  [delivered |-> {}, disjoint |-> TRUE, last |-> "none", token |-> FALSE,
   zeroNew |-> 0, streak |-> 0]

\* The history after a page with these entries and this token.
LogPage(log, items, token) ==
  LET ids == Range(items) \ {0}
      fresh == ids \ log.delivered
  IN [delivered |-> log.delivered \cup ids,
      disjoint |-> /\ log.disjoint
                   /\ Len(items) > 0
                   /\ 0 \notin Range(items)
                   /\ ids \cap log.delivered = {},
      last |-> IF Len(items) = 0 THEN "empty"
               ELSE IF fresh = {} THEN "known" ELSE "new",
      token |-> token,
      zeroNew |-> IF fresh = {} THEN log.zeroNew + 1 ELSE 0,
      streak |-> IF 1 \notin ids THEN 0
                 ELSE IF log.streak < StreakCap THEN log.streak + 1 ELSE StreakCap]

\* No call of Client.GetResourceARNs is being followed.
EnumIdle ==
  /\ ePc = "idle"
  /\ requestCount = 0
  /\ consecutiveEmptyResponses = 0
  /\ clientARNs = <<>>
  /\ seenARNs = {}
  /\ nextToken = FALSE
  /\ enumResult = <<>>
  /\ enumErr = FALSE
  /\ pagesRequested = 0
  /\ pageLog = NoPages

\* No pure function is being applied.
PureIdle ==
  /\ fn = "none"
  /\ args = <<>>
  /\ result = <<>>

Init == WatcherInit /\ EnumIdle /\ PureIdle

\* ------------------------------------------------- the reconciliation cycle

\* checkResources is executing.
InCycle == pc \in {"enumerate", "isFirstRun", "firstWrite", "read", "compare", "write"}

\* The errors a call of the AWS API with ctx can return: a cancelled context
\* fails the call.
CtxErrors == IF ctxDone THEN {TRUE} ELSE BOOLEAN

\* The errors a call of the store with ctx can return: a cancelled context
\* and a closed client fail the call.
StoreErrors == IF ctxDone \/ storeClosed THEN {TRUE} ELSE BOOLEAN

\* Entry of checkResources: the locals and the cycle's history start afresh.
EnterCycle ==
  /\ pc' = "enumerate"
  /\ regionIdx' = 1
  /\ allARNs' = <<>>
  /\ currentARNs' = <<>>
  /\ previousARNs' = <<>>
  /\ fetched' = [r \in Range(DiscoveredRegions) |-> <<>>]
  /\ failedRegions' = {}
  /\ path' = "none"
  /\ notifyCount' = 0
  /\ notified' = <<<<>>, <<>>>>
  /\ notifyFailed' = FALSE
  /\ writeCount' = 0
  /\ written' = <<>>
  /\ writeOk' = FALSE
  /\ storeAtStart' = redisList
  /\ cycleResult' = "running"
  /\ inFlightAtShutdown' = FALSE
  /\ UNCHANGED <<redisList, everWritten>>

\* Start entering its loop without the initial check.
Start_WaitsForFirstTick ==
  /\ pc = "start"
  /\ \E accountErr \in CtxErrors, regionsErr \in CtxErrors :
       LET r == getRegionsToMonitor(DiscoveredRegions, regionsInclude, regionsExclude)
       IN IF accountErr \/ regionsErr \/ r.err
          THEN /\ pc' = "exited"
               /\ startErr' = IF accountErr THEN "err_account" ELSE "err_regions"
               /\ ctxDone' = TRUE
               /\ regions' = regions
          ELSE /\ regions' = r.regions
               /\ pc' = "wait"
               /\ UNCHANGED <<ctxDone, startErr>>
  /\ UNCHANGED <<configVars, storeVars, regionIdx, allARNs, currentARNs, previousARNs,
                 redisList, histVars, inFlightAtShutdown, mainPc, stopClosed,
                 storeClosed, tickPending, enumVars, pureVars>>

\* Watcher.Start up to the initial check: the account and the regions are
\* resolved once; a failure of either makes Start return the error.
Start ==
  /\ pc = "start"
  /\ \E accountErr \in CtxErrors, regionsErr \in CtxErrors :
       LET r == getRegionsToMonitor(DiscoveredRegions, regionsInclude, regionsExclude)
       IN IF accountErr \/ regionsErr \/ r.err
          THEN \* main's goroutine logs the error and calls cancel()
               /\ pc' = "exited"
               /\ startErr' = IF accountErr THEN "err_account" ELSE "err_regions"
               /\ ctxDone' = TRUE
               /\ UNCHANGED <<regions, regionIdx, allARNs, currentARNs, previousARNs,
                              redisList, histVars, inFlightAtShutdown>>
          ELSE /\ regions' = r.regions
               /\ UNCHANGED <<ctxDone, startErr>>
               /\ EnterCycle
  /\ UNCHANGED <<configVars, storeVars, mainPc, stopClosed, storeClosed, tickPending,
                 enumVars, pureVars>>

\* The runtime sends a tick on ticker.C, whose buffer holds one tick; a tick
\* that finds the buffer full is dropped.
TickFires ==
  /\ pc \notin {"start", "exited", "killed"}
  /\ ~ tickPending
  /\ tickPending' = TRUE
  /\ UNCHANGED <<configVars, storeVars, localVars, redisList, histVars, mainPc, ctxDone,
                 stopClosed, storeClosed, startErr, inFlightAtShutdown,
                 enumVars, pureVars>>

\* The select of the loop can take case <-ticker.C: when another case is
\* ready too, one of the ready cases is chosen at random, so the tick must
\* be in the channel already; otherwise the select blocks until a tick comes.
SelectTakesTick == (ctxDone \/ stopClosed) => tickPending

\* The check started on its own goroutine at every tick, whether or not the
\* previous one has returned.
Tick_WhileCycleRuns ==
  /\ pc = "wait" \/ (InCycle /\ tickPending)
  /\ SelectTakesTick
  /\ tickPending' = FALSE
  /\ EnterCycle
  /\ UNCHANGED <<configVars, storeVars, mainPc, ctxDone, stopClosed, storeClosed, startErr,
                 regions, enumVars, pureVars>>

\* case <-ticker.C of the loop of Start: the next cycle.
Tick ==
  /\ pc = "wait"
  /\ SelectTakesTick
  /\ tickPending' = FALSE
  /\ EnterCycle
  /\ UNCHANGED <<configVars, storeVars, mainPc, ctxDone, stopClosed, storeClosed, startErr,
                 regions, enumVars, pureVars>>

\* case <-ctx.Done() (Start returns ctx.Err(), the goroutine of main logs it
\* and calls cancel() again) and case <-w.stop (Start returns nil).
LoopExit ==
  /\ pc = "wait"
  /\ ctxDone \/ stopClosed
  /\ pc' = "exited"
  /\ \/ ctxDone /\ startErr' = "err_ctx"
     \/ stopClosed /\ startErr' = "nil"
  /\ UNCHANGED <<configVars, storeVars, regions, regionIdx, allARNs, currentARNs, previousARNs,
                 redisList, histVars, mainPc, ctxDone, stopClosed, storeClosed,
                 tickPending, inFlightAtShutdown, enumVars, pureVars>>

\* main: a signal arrives on sigChan, main calls cancel().
Shutdown ==
  /\ mainPc = "waiting"
  /\ mainPc' = "cancelled"
  /\ ctxDone' = TRUE
  /\ inFlightAtShutdown' = InCycle
  /\ UNCHANGED <<configVars, storeVars, localVars, redisList, histVars, stopClosed, storeClosed,
                 tickPending, startErr, enumVars, pureVars>>

\* Watcher.Stop, called by main: close(w.stop) and w.storage.Close().
Stop ==
  /\ mainPc = "cancelled"
  /\ mainPc' = "stopped"
  /\ stopClosed' = TRUE
  /\ storeClosed' = TRUE
  /\ UNCHANGED <<configVars, storeVars, localVars, redisList, histVars, ctxDone, tickPending,
                 startErr, inFlightAtShutdown, enumVars, pureVars>>

\* main returns: the process ends, and with it the goroutine running Start
\* wherever it is.
MainReturn ==
  /\ mainPc = "stopped"
  /\ mainPc' = "exited"
  /\ pc' = IF pc = "exited" THEN pc ELSE "killed"
  /\ UNCHANGED <<configVars, storeVars, regions, regionIdx, allARNs, currentARNs, previousARNs,
                 redisList, histVars, ctxDone, stopClosed, storeClosed, tickPending,
                 startErr, inFlightAtShutdown, enumVars, pureVars>>

\* getAllResourceARNs returning the first region error to checkResources,
\* which then returns it.
FetchRegion_AbortOnError ==
  /\ pc = "enumerate"
  /\ regionIdx <= Len(regions)
  /\ LET region == regions[regionIdx]
         last == regionIdx = Len(regions)
     IN \/ /\ failedRegions' = failedRegions \cup {region}
           /\ allARNs' = allARNs
           /\ fetched' = fetched
           /\ currentARNs' = currentARNs
           /\ pc' = "wait"
           /\ cycleResult' = "err_enumerate"
        \/ \E arns \in RegionResults(region) :
             /\ ~ ctxDone
             /\ allARNs' = allARNs \o filterARNs(arns, ignorePatterns)
             /\ fetched' = [fetched EXCEPT ![region] = arns]
             /\ failedRegions' = failedRegions
             /\ currentARNs' = IF last THEN SortStrings(allARNs') ELSE currentARNs
             /\ pc' = IF last THEN "isFirstRun" ELSE pc
             /\ cycleResult' = cycleResult
  /\ regionIdx' = regionIdx + 1
  /\ UNCHANGED <<configVars, storeVars, lifeVars, regions, previousARNs, redisList, path, notifyCount,
                 notified, notifyFailed, writeCount, written, writeOk, storeAtStart,
                 everWritten, enumVars, pureVars>>

\* One iteration of the loop of getAllResourceARNs; after the last region the
\* merged list is sorted and returned to checkResources (the error is always nil).
FetchRegion ==
  /\ pc = "enumerate"
  /\ regionIdx <= Len(regions)
  /\ LET region == regions[regionIdx]
         last == regionIdx = Len(regions)
     IN \/ \* GetResourceARNs returned an error: log and continue
           /\ failedRegions' = failedRegions \cup {region}
           /\ allARNs' = allARNs
           /\ fetched' = fetched
           /\ currentARNs' = IF last THEN SortStrings(allARNs') ELSE currentARNs
           /\ pc' = IF last THEN "isFirstRun" ELSE pc
        \/ \E arns \in RegionResults(region) :
             /\ ~ ctxDone
             /\ allARNs' = allARNs \o filterARNs(arns, ignorePatterns)
             /\ fetched' = [fetched EXCEPT ![region] = arns]
             /\ failedRegions' = failedRegions
             /\ currentARNs' = IF last THEN SortStrings(allARNs') ELSE currentARNs
             /\ pc' = IF last THEN "isFirstRun" ELSE pc
  /\ regionIdx' = regionIdx + 1
  /\ UNCHANGED <<configVars, storeVars, lifeVars, regions, previousARNs, redisList, path, notifyCount,
                 notified, notifyFailed, writeCount, written, writeOk, storeAtStart,
                 cycleResult, everWritten, enumVars, pureVars>>

\* checkResources treating a failed IsFirstRun as a first run.
CheckFirstRun_ErrorMeansFirst ==
  /\ pc = "isFirstRun"
  /\ \E err \in StoreErrors :
       IF err
       THEN /\ pc' = "firstWrite"
            /\ cycleResult' = "err_isFirstRun"
            /\ path' = "first"
       ELSE /\ pc' = IF IsFirstRun(redisList) THEN "firstWrite" ELSE "read"
            /\ path' = IF IsFirstRun(redisList) THEN "first" ELSE "diff"
            /\ cycleResult' = cycleResult
  /\ UNCHANGED <<configVars, storeVars, lifeVars, regions, regionIdx, allARNs, currentARNs, previousARNs,
                 redisList, fetched, failedRegions, notifyCount, notified, notifyFailed,
                 writeCount, written, writeOk, storeAtStart, everWritten,
                 enumVars, pureVars>>

\* checkResources: w.storage.IsFirstRun and the branch on its result.
CheckFirstRun ==
  /\ pc = "isFirstRun"
  /\ \E err \in StoreErrors :
       IF err
       THEN /\ pc' = "wait"
            /\ cycleResult' = "err_isFirstRun"
            /\ path' = path
       ELSE /\ pc' = IF IsFirstRun(redisList) THEN "firstWrite" ELSE "read"
            /\ path' = IF IsFirstRun(redisList) THEN "first" ELSE "diff"
            /\ cycleResult' = cycleResult
  /\ UNCHANGED <<configVars, storeVars, lifeVars, regions, regionIdx, allARNs, currentARNs, previousARNs,
                 redisList, fetched, failedRegions, notifyCount, notified, notifyFailed,
                 writeCount, written, writeOk, storeAtStart, everWritten,
                 enumVars, pureVars>>

\* What a call of SetResourceARNs can apply: nothing when the context is
\* cancelled or the client closed before the call.
StoreOutcomes == IF ctxDone \/ storeClosed THEN {"err_none"} ELSE SetOutcomes

\* A call of w.storage.SetResourceARNs(ctx, accountID, currentARNs) that ends
\* the cycle: with errName when Exec fails, with nil otherwise.
StoreAndReturn(errName) ==
  \E outcome \in StoreOutcomes :
    /\ redisList' = SetResourceARNs(redisList, currentARNs, outcome)
    /\ writeCount' = writeCount + 1
    /\ written' = currentARNs
    /\ writeOk' = (outcome = "ok")
    /\ everWritten' = (everWritten \/ outcome = "ok")
    /\ cycleResult' = IF outcome = "ok" THEN "ok" ELSE errName
    /\ pc' = "wait"

\* The first run reporting every resource found as added.
StoreInitial_Notifying ==
  /\ pc = "firstWrite"
  /\ StoreAndReturn("err_initial_write")
  /\ notifyCount' = notifyCount + 1
  /\ notified' = <<currentARNs, <<>>>>
  /\ UNCHANGED <<configVars, storeVars, lifeVars, regions, regionIdx, allARNs, currentARNs, previousARNs,
                 fetched, failedRegions, path, notifyFailed,
                 storeAtStart, enumVars, pureVars>>

\* checkResources, first run: store the current resources, no notification.
StoreInitial ==
  /\ pc = "firstWrite"
  /\ StoreAndReturn("err_initial_write")
  /\ UNCHANGED <<configVars, storeVars, lifeVars, regions, regionIdx, allARNs, currentARNs, previousARNs,
                 fetched, failedRegions, path, notifyCount, notified, notifyFailed,
                 storeAtStart, enumVars, pureVars>>

\* Start returning the error of a failed check instead of logging it.
ReadPrevious_ErrorExits ==
  /\ pc = "read"
  /\ \E err \in StoreErrors :
       IF err
       THEN /\ pc' = "exited"
            /\ cycleResult' = "err_read"
            /\ previousARNs' = previousARNs
       ELSE /\ pc' = "compare"
            /\ previousARNs' = GetStoredARNs(redisList)
            /\ cycleResult' = cycleResult
  /\ UNCHANGED <<configVars, storeVars, lifeVars, regions, regionIdx, allARNs, currentARNs, redisList,
                 fetched, failedRegions, path, notifyCount, notified, notifyFailed,
                 writeCount, written, writeOk, storeAtStart, everWritten,
                 enumVars, pureVars>>

\* checkResources: w.storage.GetResourceARNs.
ReadPrevious ==
  /\ pc = "read"
  /\ \E err \in StoreErrors :
       IF err
       THEN /\ pc' = "wait"
            /\ cycleResult' = "err_read"
            /\ previousARNs' = previousARNs
       ELSE /\ pc' = "compare"
            /\ previousARNs' = GetStoredARNs(redisList)
            /\ cycleResult' = cycleResult
  /\ UNCHANGED <<configVars, storeVars, lifeVars, regions, regionIdx, allARNs, currentARNs, redisList,
                 fetched, failedRegions, path, notifyCount, notified, notifyFailed,
                 writeCount, written, writeOk, storeAtStart, everWritten,
                 enumVars, pureVars>>

\* SendNotification sent a second time when the first attempt fails.
NotifyChanges_Retrying ==
  /\ pc = "compare"
  /\ LET diff == compareResources(previousARNs, currentARNs)
     IN /\ Len(diff[1]) > 0 \/ Len(diff[2]) > 0
        /\ notified' = diff
        /\ \E err \in BOOLEAN :
             /\ notifyFailed' = err
             /\ notifyCount' = IF err THEN notifyCount + 2 ELSE notifyCount + 1
  /\ pc' = "write"
  /\ UNCHANGED <<configVars, storeVars, lifeVars, regions, regionIdx, allARNs, currentARNs, previousARNs,
                 redisList, fetched, failedRegions, path, writeCount, written, writeOk,
                 storeAtStart, cycleResult, everWritten, enumVars, pureVars>>

\* checkResources: compareResources found changes; one SendNotification, whose
\* error is logged only.
NotifyChanges ==
  /\ pc = "compare"
  /\ LET diff == compareResources(previousARNs, currentARNs)
     IN /\ Len(diff[1]) > 0 \/ Len(diff[2]) > 0
        /\ notified' = diff
        /\ notifyCount' = notifyCount + 1
        /\ \E err \in BOOLEAN : notifyFailed' = err
  /\ pc' = "write"
  /\ UNCHANGED <<configVars, storeVars, lifeVars, regions, regionIdx, allARNs, currentARNs, previousARNs,
                 redisList, fetched, failedRegions, path, writeCount, written, writeOk,
                 storeAtStart, cycleResult, everWritten, enumVars, pureVars>>

\* checkResources sending a notification with two empty lists.
NoChanges_Notifying ==
  /\ pc = "compare"
  /\ LET diff == compareResources(previousARNs, currentARNs)
     IN /\ ~ (Len(diff[1]) > 0 \/ Len(diff[2]) > 0)
        /\ notified' = diff
  /\ notifyCount' = notifyCount + 1
  /\ pc' = "write"
  /\ UNCHANGED <<configVars, storeVars, lifeVars, regions, regionIdx, allARNs, currentARNs, previousARNs,
                 redisList, fetched, failedRegions, path, notifyFailed, writeCount, written, writeOk,
                 storeAtStart, cycleResult, everWritten, enumVars, pureVars>>

\* checkResources: compareResources found no change.
NoChanges ==
  /\ pc = "compare"
  /\ LET diff == compareResources(previousARNs, currentARNs)
     IN ~ (Len(diff[1]) > 0 \/ Len(diff[2]) > 0)
  /\ pc' = "write"
  /\ UNCHANGED <<configVars, storeVars, lifeVars, regions, regionIdx, allARNs, currentARNs, previousARNs,
                 redisList, histVars, enumVars, pureVars>>

\* checkResources returning the notification error instead of logging it.
StoreCurrent_UnlessNotifyFailed ==
  /\ pc = "write"
  /\ IF notifyFailed
     THEN /\ pc' = "wait"
          /\ cycleResult' = "err_notify"
          /\ UNCHANGED <<redisList, writeCount, written, writeOk, everWritten>>
     ELSE StoreAndReturn("err_write")
  /\ UNCHANGED <<configVars, storeVars, lifeVars, regions, regionIdx, allARNs, currentARNs, previousARNs,
                 fetched, failedRegions, path, notifyCount, notified, notifyFailed,
                 storeAtStart, enumVars, pureVars>>

\* checkResources: update storage with the current resources.
StoreCurrent ==
  /\ pc = "write"
  /\ StoreAndReturn("err_write")
  /\ UNCHANGED <<configVars, storeVars, lifeVars, regions, regionIdx, allARNs, currentARNs, previousARNs,
                 fetched, failedRegions, path, notifyCount, notified, notifyFailed,
                 storeAtStart, enumVars, pureVars>>

Next ==
  \/ Shutdown
  \/ Stop
  \/ MainReturn
  \/ Start
  \/ TickFires
  \/ Tick
  \/ LoopExit
  \/ FetchRegion
  \/ CheckFirstRun
  \/ StoreInitial
  \/ ReadPrevious
  \/ NotifyChanges
  \/ NoChanges
  \/ StoreCurrent

Spec == Init /\ [][Next]_vars

\* The program started with one configuration: no ignore pattern, one
\* region in the include list.
InitLive ==
  /\ Init
  /\ ignorePatterns = <<>>
  /\ regionsInclude = <<R1>>
  /\ regionsExclude = <<>>

\* A step of the goroutine running Start, up to the select of its loop.
WatcherStep ==
  \/ Start
  \/ FetchRegion
  \/ CheckFirstRun
  \/ StoreInitial
  \/ ReadPrevious
  \/ NotifyChanges
  \/ NoChanges
  \/ StoreCurrent

\* The program under the Go scheduler.  A goroutine that can run does run:
\* the goroutine of Start takes its next step and every call it makes returns
\* (every cycle terminates), and main, once the signal has come, goes on to
\* Stop and to its return.  The select of the loop chooses at random among
\* its ready cases, so a case that is ready at every evaluation is taken in
\* the end.  Nothing forces a signal to come or the ticker to fire.
SpecLive ==
  /\ InitLive
  /\ [][Next]_vars
  /\ WF_vars(WatcherStep)
  /\ SF_vars(LoopExit)
  /\ WF_vars(Stop)
  /\ WF_vars(MainReturn)

\* ------------------------------------- enumeration of one region (client)

\* Identifiers are opaque to Client.GetResourceARNs: they are modelled as the
\* numbers 1, 2, ...; 0 is a ResourceTagMapping whose ResourceARN is nil.

maxRequests == 50
maxEmptyResponses == 1

\* Longest page the listing API returns in the model.
MaxPageLen == 2

\* The ceiling tested one request too late.
RequestLimitReached_OffByOne(count) == count > maxRequests + 1

\* requestCount > maxRequests, the first test of the loop.
RequestLimitReached(count) == count > maxRequests

\* The empty-response ceiling tested one response too late.
TooManyEmptyResponses_OffByOne(count) == count > maxEmptyResponses

\* consecutiveEmptyResponses >= maxEmptyResponses
TooManyEmptyResponses(count) == count >= maxEmptyResponses

\* The all-duplicates stop missing the pages of a single entry.
AllDuplicates_OffByOne(resourceCount, newARNsInBatch) ==
  resourceCount > 1 /\ newARNsInBatch = 0

\* resourceCount > 0 && newARNsInBatch == 0
AllDuplicates(resourceCount, newARNsInBatch) ==
  resourceCount > 0 /\ newARNsInBatch = 0

\* The loop over the page leaving after its first entry.
ProcessPage_FirstOnly(items, acc) ==
  IF items = <<>> THEN acc
  ELSE LET arn == Head(items)
       IN IF arn = 0 THEN acc
          ELSE IF arn \in acc.seen
          THEN [acc EXCEPT !.dup = acc.dup + 1]
          ELSE [all |-> Append(acc.all, arn), seen |-> acc.seen \cup {arn},
                new |-> acc.new + 1, dup |-> acc.dup]

RECURSIVE ProcessPage_NoSeenCheck(_, _)
\* The loop over the page appending every identifier, seen or not.
ProcessPage_NoSeenCheck(items, acc) ==
  IF items = <<>> THEN acc
  ELSE LET arn == Head(items)
           next == IF arn = 0 THEN acc
                   ELSE [all |-> Append(acc.all, arn), seen |-> acc.seen \cup {arn},
                         new |-> IF arn \in acc.seen THEN acc.new ELSE acc.new + 1,
                         dup |-> IF arn \in acc.seen THEN acc.dup + 1 ELSE acc.dup]
       IN ProcessPage_NoSeenCheck(Tail(items), next)

RECURSIVE ProcessPage(_, _)
\* The loop over result.ResourceTagMappingList: acc is
\* [all: allARNs, seen: seenARNs, new: newARNsInBatch, dup: duplicatesInBatch].
ProcessPage(items, acc) ==
  IF items = <<>> THEN acc
  ELSE LET arn == Head(items)
           next == IF arn = 0 THEN acc
                   ELSE IF arn \in acc.seen
                   THEN [acc EXCEPT !.dup = acc.dup + 1]
                   ELSE [all |-> Append(acc.all, arn), seen |-> acc.seen \cup {arn},
                         new |-> acc.new + 1, dup |-> acc.dup]
       IN ProcessPage(Tail(items), next)

\* The pages GetResources may answer with.  Which identifier repeats an earlier
\* one and how an unseen one is called do not matter to the loop: a page holds
\* nil entries, the first or the latest identifier seen so far, and unseen
\* identifiers numbered in the order they appear.
PageChoices ==
  LET n == Cardinality(seenARNs)
      cand == {0} \cup ({1, n} \cap seenARNs) \cup (n + 1 .. n + MaxPageLen)
      inOrder(p) == \A i \in 1..Len(p) : \A k \in n + 1 .. p[i] - 1 :
                      \E j \in 1..(i - 1) : p[j] = k
  IN {p \in UNION {[1..k -> cand] : k \in 0..MaxPageLen} : inOrder(p)}

EnumInit ==
  /\ ePc = "loop"
  /\ requestCount = 0
  /\ consecutiveEmptyResponses = 0
  /\ clientARNs = <<>>
  /\ seenARNs = {}
  /\ nextToken = FALSE
  /\ enumResult = <<>>
  /\ enumErr = FALSE
  /\ pagesRequested = 0
  /\ pageLog = NoPages

\* break: the code after the loop returns allARNs and a nil error.
ReturnAccumulated(all) ==
  /\ ePc' = "done"
  /\ enumResult' = all
  /\ enumErr' = FALSE

\* An iteration that stops at the request ceiling before issuing a request.
RequestLimit ==
  /\ ePc = "loop"
  /\ requestCount' = requestCount + 1
  /\ RequestLimitReached(requestCount')
  /\ ReturnAccumulated(clientARNs)
  /\ UNCHANGED <<consecutiveEmptyResponses, clientARNs, seenARNs, nextToken,
                 pagesRequested, pageLog, watcherVars, pureVars>>

\* A failed request returning what the earlier pages accumulated.
RequestFails_ReturnsPartial ==
  /\ ePc = "loop"
  /\ requestCount' = requestCount + 1
  /\ ~ RequestLimitReached(requestCount')
  /\ pagesRequested' = pagesRequested + 1
  /\ ePc' = "done"
  /\ enumResult' = clientARNs
  /\ enumErr' = TRUE
  /\ pageLog' = [pageLog EXCEPT !.last = "error"]
  /\ UNCHANGED <<consecutiveEmptyResponses, clientARNs, seenARNs, nextToken,
                 watcherVars, pureVars>>

\* An iteration whose GetResources call fails (API error, or the 60 s timeout
\* of timeoutCtx): return nil and the error.
RequestFails ==
  /\ ePc = "loop"
  /\ requestCount' = requestCount + 1
  /\ ~ RequestLimitReached(requestCount')
  /\ pagesRequested' = pagesRequested + 1
  /\ ePc' = "done"
  /\ enumResult' = <<>>
  /\ enumErr' = TRUE
  /\ pageLog' = [pageLog EXCEPT !.last = "error"]
  /\ UNCHANGED <<consecutiveEmptyResponses, clientARNs, seenARNs, nextToken,
                 watcherVars, pureVars>>

\* An iteration whose GetResources call returns a page and a token.
PageReceived ==
  /\ ePc = "loop"
  /\ requestCount' = requestCount + 1
  /\ ~ RequestLimitReached(requestCount')
  /\ pagesRequested' = pagesRequested + 1
  /\ \E items \in PageChoices, token \in BOOLEAN :
       LET resourceCount == Len(items)
           empties == IF resourceCount = 0 THEN consecutiveEmptyResponses + 1 ELSE 0
           acc == ProcessPage(items, [all |-> clientARNs, seen |-> seenARNs,
                                      new |-> 0, dup |-> 0])
       IN /\ pageLog' = LogPage(pageLog, items, token)
          /\ consecutiveEmptyResponses' = empties
          /\ IF resourceCount = 0 /\ TooManyEmptyResponses(empties)
             THEN \* too many consecutive empty responses: break
                  /\ ReturnAccumulated(clientARNs)
                  /\ UNCHANGED <<clientARNs, seenARNs, nextToken>>
             ELSE /\ clientARNs' = acc.all
                  /\ seenARNs' = acc.seen
                  /\ IF AllDuplicates(resourceCount, acc.new)
                     THEN \* all duplicates: break
                          /\ ReturnAccumulated(acc.all)
                          /\ UNCHANGED nextToken
                     ELSE /\ nextToken' = token
                          /\ IF ~ token
                             THEN ReturnAccumulated(acc.all)
                             ELSE UNCHANGED <<ePc, enumResult, enumErr>>
  /\ UNCHANGED <<watcherVars, pureVars>>

\* The watcher at rest, while another part of the program is followed.
WatcherIdle ==
  /\ WatcherInit
  /\ ignorePatterns = <<>>
  /\ regionsInclude = <<>>
  /\ regionsExclude = <<>>

EnumNext ==
  \/ RequestLimit
  \/ RequestFails
  \/ PageReceived

InitEnum == WatcherIdle /\ EnumInit /\ PureIdle

\* One call of Client.GetResourceARNs against every behaviour of the listing API.
SpecEnum == InitEnum /\ [][EnumNext]_vars

\* ------------------------------------------------ pure functions, applied

\* Longest list handed to compareResources in the model.
MaxListLen == 2

\* All lists over S of length at most n (duplicates and any order allowed).
SeqsUpTo(S, n) == UNION {[1..k -> S] : k \in 0..n}

CompareInputs == SeqsUpTo({ArnI1, ArnV1, ArnI2}, MaxListLen)

InitCompare ==
  /\ WatcherIdle
  /\ EnumIdle
  /\ fn = "compareResources"
  /\ args \in CompareInputs \X CompareInputs
  /\ result = <<>>

\* added, removed := w.compareResources(previous, current)
ApplyCompare ==
  /\ fn = "compareResources"
  /\ result = <<>>
  /\ result' = <<"returned", compareResources(args[1], args[2])>>
  /\ UNCHANGED <<fn, args, watcherVars, enumVars>>

\* compareResources on every pair of lists of the bounded input set.
SpecCompare == InitCompare /\ [][ApplyCompare]_vars

\* An identifier with fewer than 6 fields.
ArnShort == <<"arn", ":", "aws", ":", "ec2">>

PatInstances == <<"arn", ":", "aws", ":", "ec2", ":", "*", ":", "*", ":", "instance", "/", "*">>
PatEast == <<"arn", ":", "aws", ":", "ec2", ":", "us-east-1", ":", ":", "*">>
\* A pattern with fewer than 6 fields.
PatShort == <<"arn", ":", "aws", ":", "ec2", ":", "*", ":", "*">>

FilterArns == SeqsUpTo({ArnI1, ArnV1, ArnI2, ArnRole, ArnShort}, MaxListLen)

FilterPatterns == SeqsUpTo({PatVolumes, PatInstances, PatEast, PatShort}, MaxListLen)

InitFilter ==
  /\ WatcherIdle
  /\ EnumIdle
  /\ fn = "filterARNs"
  /\ args \in FilterArns \X FilterPatterns
  /\ result = <<>>

\* filteredARNs := w.filterARNs(arns)
ApplyFilter ==
  /\ fn = "filterARNs"
  /\ result = <<>>
  /\ result' = <<"returned", filterARNs(args[1], args[2])>>
  /\ UNCHANGED <<fn, args, watcherVars, enumVars>>

\* filterARNs on every list of identifiers and every list of patterns of the
\* bounded input sets.
SpecFilter == InitFilter /\ [][ApplyFilter]_vars

RECURSIVE Join(_)
\* strings.Join(fields, ":")
Join(fields) ==
  IF Len(fields) = 0 THEN <<>>
  ELSE IF Len(fields) = 1 THEN fields[1]
  ELSE fields[1] \o <<":">> \o Join(Tail(fields))

\* Resource parts of identifiers: type/id, type:id, a bare type, nothing.
MatchResources ==
  {<<"instance", "/", "i-1">>, <<"instance", "/", "i-2">>, <<"instance", ":", "i-1">>,
   <<"instance", ":", "i-2">>, <<"instance">>, <<"volume", "/", "v-1">>, <<>>}

\* Identifiers of 6 or more fields (a resource part type:id adds a field), and
\* strings of fewer fields.
MatchArns ==
  {Join(<<<<"arn">>, <<"aws">>, <<service>>, region, <<"123">>, resource>>) :
     service \in {"ec2", "iam"}, region \in {<<"us-east-1">>, <<>>},
     resource \in MatchResources}
  \cup {<<>>, ArnShort, <<"arn", ":", "aws", ":", "ec2", ":", "us-east-1", ":", "123">>}

\* Resource parts of patterns.
MatchPatternResources ==
  {<<"*">>, <<>>, <<"instance", "/", "*">>, <<"instance", ":", "*">>,
   <<"instance", "/", "i-1">>, <<"instance", ":", "i-1">>, <<"instance">>,
   <<"volume", "/", "*">>}

\* Patterns of 6 or more fields, each field literal, "*" or empty, and strings
\* of fewer fields.
MatchPatterns ==
  {Join(<<f0, f1, f2, f3, f4, resource>>) :
     f0 \in {<<"arn">>, <<"*">>, <<"aws">>}, f1 \in {<<"aws">>, <<>>},
     f2 \in {<<"ec2">>, <<"*">>, <<"iam">>},
     f3 \in {<<"us-east-1">>, <<"*">>, <<>>, <<"eu-west-1">>},
     f4 \in {<<"123">>, <<"*">>}, resource \in MatchPatternResources}
  \cup {<<"*">>, PatShort, <<":", ":", ":", ":">>}

InitMatch ==
  /\ WatcherIdle
  /\ EnumIdle
  /\ fn = "matchesARNPattern"
  /\ args \in MatchArns \X MatchPatterns
  /\ result = <<>>

\* w.matchesARNPattern(arn, pattern)
ApplyMatch ==
  /\ fn = "matchesARNPattern"
  /\ result = <<>>
  /\ result' = <<"returned", matchesARNPattern(args[1], args[2])>>
  /\ UNCHANGED <<fn, args, watcherVars, enumVars>>

\* matchesARNPattern on every identifier and every pattern of the bounded
\* input sets.
SpecMatch == InitMatch /\ [][ApplyMatch]_vars

\* ----------------------------------- the store, command by command

\* The lists a call of SetResourceARNs is given in the model.
StoreInputs == SeqsUpTo({ArnI1, ArnV1}, MaxListLen)

\* The commands SetResourceARNs queues in its pipeline.
PipelineOf(arns) == IF Len(arns) > 0 THEN <<"DEL", "LPUSH">> ELSE <<"DEL">>

\* The server leaving the old list in place when it is told to delete it.
ExecCommand_KeepsOld(list, cmd, arns) ==
  IF cmd = "DEL" THEN list ELSE LPush(list, arns)

\* The server executing one command of the pipeline on the list of the key.
ExecCommand(list, cmd, arns) ==
  IF cmd = "DEL" THEN <<>> ELSE LPush(list, arns)

\* SetResourceARNs queues its commands and Exec sends them to the server.
BeginSet ==
  /\ storeCall.state \in {"idle", "returned_nil", "returned_err"}
  /\ \E arns \in StoreInputs :
       storeCall' = [state |-> "exec", arns |-> arns, before |-> redisList,
                     pending |-> PipelineOf(arns)]
  /\ reader' = <<>>
  /\ UNCHANGED <<configVars, localVars, redisList, histVars, lifeVars, enumVars, pureVars>>

\* The server executes the next command of the pipeline.  A pipeline is not
\* a transaction: the server is free to serve other clients between its
\* commands.
ServerExec ==
  /\ storeCall.state = "exec"
  /\ storeCall.pending # <<>>
  /\ redisList' = ExecCommand(redisList, Head(storeCall.pending), storeCall.arns)
  /\ storeCall' = [storeCall EXCEPT !.pending = Tail(storeCall.pending)]
  /\ UNCHANGED <<configVars, localVars, histVars, lifeVars, reader, enumVars, pureVars>>

\* Exec returns nil: every command was executed and answered.
ExecReturns ==
  /\ storeCall.state = "exec"
  /\ storeCall.pending = <<>>
  /\ storeCall' = [storeCall EXCEPT !.state = "returned_nil"]
  /\ UNCHANGED <<configVars, localVars, redisList, histVars, lifeVars, reader,
                 enumVars, pureVars>>

\* Exec returns an error: the connection failed before the commands not yet
\* executed reached the server, or before the replies came back.
ExecFails ==
  /\ storeCall.state = "exec"
  /\ storeCall' = [storeCall EXCEPT !.state = "returned_err", !.pending = <<>>]
  /\ UNCHANGED <<configVars, localVars, redisList, histVars, lifeVars, reader,
                 enumVars, pureVars>>

\* Another client calls IsFirstRun for the same account.
ReaderIsFirstRun ==
  /\ storeCall.state # "idle"
  /\ reader' = <<"IsFirstRun", IsFirstRun(redisList)>>
  /\ UNCHANGED <<configVars, localVars, redisList, histVars, lifeVars, storeCall,
                 enumVars, pureVars>>

\* Another client calls GetResourceARNs for the same account.
ReaderGetResourceARNs ==
  /\ storeCall.state # "idle"
  /\ reader' = <<"GetResourceARNs", GetStoredARNs(redisList), redisList = <<>>>>
  /\ UNCHANGED <<configVars, localVars, redisList, histVars, lifeVars, storeCall,
                 enumVars, pureVars>>

StoreNext ==
  \/ BeginSet
  \/ ServerExec
  \/ ExecReturns
  \/ ExecFails
  \/ ReaderIsFirstRun
  \/ ReaderGetResourceARNs

InitStore == WatcherIdle /\ EnumIdle /\ PureIdle

\* Calls of SetResourceARNs, one after another, with a second client reading
\* the key at any moment.
SpecStore == InitStore /\ [][StoreNext]_vars

\* ------------------------------------------------------------- properties

\* The identifiers of a region's result that no ignore pattern matches.
FilteredOf(region) ==
  {a \in Range(fetched[region]) :
     \A k \in 1..Len(ignorePatterns) : ~ matchesARNPattern(a, ignorePatterns[k])}

\* The filtered identifiers of the regions whose enumeration succeeded.
FilteredCurrentSet ==
  UNION {FilteredOf(region) : region \in Range(regions) \ failedRegions}

\* A cycle has passed IsFirstRun without error.
PastFirstRunCheck ==
  \/ pc \in {"firstWrite", "read", "compare", "write"}
  \/ pc = "wait" /\ cycleResult # "err_isFirstRun"

\* C1: a cycle that starts with no stored state takes the first-run path
\* whatever it enumerated: it never invokes the notifier, and it ends with one
\* SetResourceARNs of the filtered current set, which is the stored set once
\* that write succeeds.
C1_FirstRunStoresWithoutNotifying ==
  (storeAtStart = <<>> /\ PastFirstRunCheck) =>
    /\ path = "first"
    /\ notifyCount = 0
    /\ pc = "wait" =>
         /\ writeCount = 1
         /\ written = currentARNs
         /\ Range(written) = FilteredCurrentSet
         /\ writeOk => Range(redisList) = FilteredCurrentSet

C1_Witness ==
  /\ storeAtStart = <<>>
  /\ path = "first"
  /\ pc = "wait"
  /\ writeOk
  /\ Cardinality(Range(redisList)) >= 2
  /\ ArnV1 \in Range(fetched[R1]) \ Range(redisList)

\* C2: compareResources returns as added exactly the identifiers of current
\* that are not in previous and as removed exactly those of previous that are
\* not in current.
C2_CompareIsSetDifference ==
  (fn = "compareResources" /\ result # <<>>) =>
    LET previous == args[1]
        current == args[2]
        added == result[2][1]
        removed == result[2][2]
    IN /\ Range(added) = Range(current) \ Range(previous)
       /\ Range(removed) = Range(previous) \ Range(current)

C2_Witness ==
  /\ fn = "compareResources"
  /\ result # <<>>
  /\ args = <<(<<ArnI1, ArnV1>>), (<<ArnV1, ArnI2>>)>>
  /\ result[2] = <<(<<ArnI2>>), (<<ArnI1>>)>>

\* The previous state of a non-first-run cycle has been read without error.
PreviousRead ==
  /\ path = "diff"
  /\ \/ pc \in {"compare", "write"}
     \/ pc = "wait" /\ cycleResult # "err_read"

\* C3: the notifier is invoked at most once per cycle; once the previous
\* state is read and compared, it has been invoked exactly once, with the
\* added and removed lists of the comparison, when one of them is non-empty,
\* and not at all when both are empty, also when the invocation failed.
C3_NotifyOncePerChange ==
  /\ notifyCount <= 1
  /\ (PreviousRead /\ pc \in {"write", "wait"}) =>
       LET added == Range(currentARNs) \ Range(previousARNs)
           removed == Range(previousARNs) \ Range(currentARNs)
       IN IF added # {} \/ removed # {}
          THEN /\ notifyCount = 1
               /\ notified = compareResources(previousARNs, currentARNs)
               /\ Range(notified[1]) = added
               /\ Range(notified[2]) = removed
          ELSE notifyCount = 0

C3_Witness ==
  /\ PreviousRead
  /\ pc = "wait"
  /\ notifyCount = 1
  /\ notifyFailed
  /\ notified[1] # <<>>
  /\ notified[2] # <<>>

\* C4: a non-first-run cycle that has read the previous state ends with one
\* SetResourceARNs of the filtered current set, whether the notifier was not
\* invoked, succeeded or failed; when that write succeeds the stored set is
\* the cycle's current set.
C4_PersistRegardlessOfNotification ==
  (PreviousRead /\ pc = "wait") =>
    /\ writeCount = 1
    /\ written = currentARNs
    /\ Range(written) = FilteredCurrentSet
    /\ writeOk => Range(redisList) = Range(currentARNs)

C4_Witness ==
  /\ PreviousRead
  /\ pc = "wait"
  /\ notifyCount = 1
  /\ notifyFailed
  /\ writeOk
  /\ redisList # storeAtStart
  /\ redisList # <<>>

\* C5: no identifier of a region whose enumeration failed in this cycle is
\* among the removed identifiers handed to the notifier.
C5_FailedRegionNotReportedRemoved ==
  \A region \in failedRegions :
    \A a \in Range(notified[2]) : RegionOf(a) # region

\* C6: a cycle in which every region failed sends no notification and leaves
\* the store untouched.
C6_TotalFailureAbortsCycle ==
  (failedRegions # {} /\ failedRegions = Range(regions)) =>
    /\ notifyCount = 0
    /\ writeCount = 0
    /\ redisList = storeAtStart

\* Some but not all regions failed, and getAllResourceARNs has returned.
PartialFailure ==
  /\ failedRegions # {}
  /\ failedRegions # Range(regions)
  /\ pc # "enumerate"

\* C7: after a partial failure the merged current set is exactly the filtered
\* identifiers of the regions that succeeded, and the cycle goes on: it ends
\* before its persist step only through a failed read of the store.
C7_PartialFailureContinues ==
  PartialFailure =>
    /\ Range(currentARNs) = FilteredCurrentSet
    /\ pc = "wait" =>
         \/ cycleResult \in {"err_isFirstRun", "err_read"}
         \/ writeCount = 1 /\ written = currentARNs

C7_Witness ==
  /\ PartialFailure
  /\ failedRegions = {R2}
  /\ ignorePatterns # <<>>
  /\ fetched[R1] = <<ArnV1, ArnI1>>
  /\ path = "diff"
  /\ notifyCount = 1
  /\ pc = "wait"
  /\ writeOk

\* C8: a cycle in which IsFirstRun or the read of the previous set fails ends
\* there: no notification, no write, the stored list as it was, and not by
\* the first-run path.
C8_StoreReadFailureAborts ==
  cycleResult \in {"err_isFirstRun", "err_read"} =>
    /\ pc \in {"wait", "exited", "killed"}
    /\ notifyCount = 0
    /\ writeCount = 0
    /\ redisList = storeAtStart
    /\ path # "first"

C8_Witness ==
  /\ cycleResult = "err_isFirstRun"
  /\ redisList # <<>>
  /\ Range(currentARNs) # Range(redisList)

\* C9: once a SetResourceARNs has completed successfully, IsFirstRun is false.
C9_NotFirstRunAfterWrite ==
  everWritten => ~ IsFirstRun(redisList)

\* C10: GetResourceARNs issues at most maxRequests page requests and runs at
\* most maxRequests + 1 iterations of its loop (every iteration counts one
\* request up, so the loop ends); when it stops at that ceiling it returns the
\* identifiers accumulated so far, each once, with no error.
C10_RequestCeiling ==
  /\ pagesRequested <= maxRequests
  /\ requestCount <= maxRequests + 1
  /\ ePc = "loop" => requestCount = pagesRequested /\ requestCount <= maxRequests
  /\ (ePc = "done" /\ requestCount > maxRequests) =>
       /\ pagesRequested = maxRequests
       /\ ~ enumErr
       /\ enumResult = clientARNs
       /\ Range(enumResult) = seenARNs

C10_Witness ==
  /\ ePc = "done"
  /\ requestCount > maxRequests
  /\ nextToken
  /\ Len(enumResult) >= maxRequests

\* No element occurs twice in the list.
NoDup(s) == \A i, j \in 1..Len(s) : i # j => s[i] # s[j]

\* How often x occurs in the list.
Occurrences(x, s) == Cardinality({i \in 1..Len(s) : s[i] = x})

\* The call has returned after a chain of pages that were all non-empty and
\* pairwise disjoint, none of them failing.
WellBehavedChain ==
  /\ ePc = "done"
  /\ pageLog.disjoint
  /\ pageLog.last # "error"
  /\ pagesRequested > 0

\* C11 as stated: after well-behaved pages of a chain of any length the call
\* has followed the chain to its absent token and returns the identifiers of
\* all its pages.  (A non-nil token on the last page received means the chain
\* has further, non-empty pages that were never requested.)
C11_CompleteForAnyChain ==
  WellBehavedChain =>
    /\ ~ enumErr
    /\ ~ pageLog.token
    /\ Range(enumResult) = pageLog.delivered

\* C11, amended: after well-behaved pages the call returns without error
\* exactly the identifiers of the pages received, and it has followed the
\* chain to its absent token whenever the chain has at most maxRequests
\* pages (the loop did not stop at the request ceiling).
C11_CompleteUpToCeiling ==
  WellBehavedChain =>
    /\ ~ enumErr
    /\ Range(enumResult) = pageLog.delivered
    /\ requestCount <= maxRequests => ~ pageLog.token /\ pagesRequested = requestCount

C11_Witness ==
  /\ WellBehavedChain
  /\ pagesRequested = maxRequests
  /\ ~ pageLog.token
  /\ Cardinality(Range(enumResult)) > maxRequests

\* C12: the accumulated list and the returned list never hold an identifier
\* twice, and every identifier the API returned on some page is in the
\* accumulated list exactly once, however often it was returned.
C12_ResultHasNoDuplicates ==
  /\ NoDup(clientARNs)
  /\ NoDup(enumResult)
  /\ \A id \in pageLog.delivered : Occurrences(id, clientARNs) = 1
  /\ (ePc = "done" /\ ~ enumErr) => enumResult = clientARNs

C12_Witness ==
  /\ ePc = "done"
  /\ ~ enumErr
  /\ pageLog.streak >= 3
  /\ Occurrences(1, enumResult) = 1
  /\ Len(enumResult) >= 3

\* C13: the merged list of a cycle holds no identifier twice.
C13_MergedSetHasNoDuplicates ==
  /\ NoDup(allARNs)
  /\ NoDup(currentARNs)

\* C14: a page with at least one entry and no new identifier ends the call at
\* once: no further request, no error, and the list accumulated from the
\* earlier pages as the result.
C14_StopsOnKnownPage ==
  pageLog.last = "known" =>
    /\ ePc = "done"
    /\ ~ enumErr
    /\ enumResult = clientARNs
    /\ Range(enumResult) = pageLog.delivered

C14_Witness ==
  /\ pageLog.last = "known"
  /\ pageLog.token
  /\ ePc = "done"
  /\ Len(enumResult) >= 2
  /\ pagesRequested < maxRequests

C16_ErrorReturnsNothing ==
  /\ pageLog.last = "error" <=> enumErr
  /\ enumErr => ePc = "done" /\ enumResult = <<>>

C16_Witness ==
  /\ enumErr
  /\ ePc = "done"
  /\ Len(clientARNs) >= 2
  /\ pagesRequested >= 2

\* C17: filterARNs keeps, in order and with their multiplicity, exactly the
\* identifiers that no pattern matches, and returns its input when there is
\* no pattern.
C17_FilterKeepsUnmatched ==
  (fn = "filterARNs" /\ result # <<>>) =>
    LET arns == args[1]
        patterns == args[2]
        filtered == result[2]
        ignored(arn) == \E k \in 1..Len(patterns) : matchesARNPattern(arn, patterns[k])
    IN /\ Range(filtered) = {arn \in Range(arns) : ~ ignored(arn)}
       /\ \A arn \in Range(filtered) : Occurrences(arn, filtered) = Occurrences(arn, arns)
       /\ \A i, j \in 1..Len(filtered) :
            i < j => \E m, n \in 1..Len(arns) :
                       m < n /\ arns[m] = filtered[i] /\ arns[n] = filtered[j]
       /\ patterns = <<>> => filtered = arns

C17_Witness ==
  /\ fn = "filterARNs"
  /\ result # <<>>
  /\ args[1] = <<ArnV1, ArnI2>>
  /\ args[2] = <<PatEast, PatVolumes>>
  /\ result[2] = <<ArnI2>>

\* Number of colon-delimited fields of a string.
FieldCount(s) == Cardinality({i \in 1..Len(s) : s[i] = ":"}) + 1

\* C18: matchesARNPattern returns false when the identifier or the pattern
\* has fewer than 6 colon-delimited fields.
C18_MalformedNeverMatches ==
  (fn = "matchesARNPattern" /\ result # <<>>) =>
    /\ result[1] = "returned"
    /\ result[2] \in BOOLEAN
    /\ (FieldCount(args[1]) < 6 \/ FieldCount(args[2]) < 6) => result[2] = FALSE

C18_Witness ==
  /\ fn = "matchesARNPattern"
  /\ result = <<"returned", FALSE>>
  /\ FieldCount(args[1]) = 3
  /\ FieldCount(args[2]) = 6
  /\ Split(args[2])[4] = <<"*">>
  /\ Split(args[2])[6] = <<"*">>

\* Both strings of a matchesARNPattern call have 6 fields or more.
WellFormedCall ==
  /\ fn = "matchesARNPattern"
  /\ FieldCount(args[1]) >= 6
  /\ FieldCount(args[2]) >= 6

\* C19: on well-formed strings matchesARNPattern returns true only if each
\* of the pattern's fields 0 to 4 is empty, "*" or the identifier's field.
C19_LeadingFieldsMustMatch ==
  (WellFormedCall /\ result # <<>> /\ result[2] = TRUE) =>
    \A i \in 1..5 :
      \/ Split(args[2])[i] = <<>>
      \/ Split(args[2])[i] = <<"*">>
      \/ Split(args[2])[i] = Split(args[1])[i]

C19_Witness ==
  /\ WellFormedCall
  /\ result = <<"returned", TRUE>>
  /\ Split(args[2])[1] = <<"arn">>
  /\ Split(args[2])[2] = <<>>
  /\ Split(args[2])[3] = <<"ec2">>
  /\ Split(args[2])[4] = <<"us-east-1">>
  /\ Split(args[2])[5] = <<"*">>
  /\ Split(args[2])[6] = <<"instance", "/", "*">>

\* The resource rule of the claim, on whole resource parts.
ResourceRule(arnResource, patternResource) ==
  IF HasSuffix(patternResource, <<"/", "*">>) \/ HasSuffix(patternResource, <<":", "*">>)
  THEN LET type == SubSeq(patternResource, 1, Len(patternResource) - 2)
       IN HasPrefix(arnResource, type \o <<"/">>) \/ HasPrefix(arnResource, type \o <<":">>)
  ELSE IF patternResource = <<"*">> THEN TRUE
  ELSE arnResource = patternResource

\* C20: on well-formed strings whose fields 0 to 4 match, a non-empty pattern
\* resource decides the result by the resource rule: a suffix "/*" or ":*"
\* matches the resource parts starting with type/ or type:, "*" matches any,
\* anything else only the identical resource part.
C20_ResourceRuleDecides ==
  (/\ WellFormedCall
   /\ result # <<>>
   /\ ResourceOf(args[2]) # <<>>
   /\ \A i \in 1..5 : Split(args[2])[i] \in {<<>>, <<"*">>, Split(args[1])[i]}) =>
    result[2] = ResourceRule(ResourceOf(args[1]), ResourceOf(args[2]))

\* C21: a cycle that was in progress when main called cancel() is not cut
\* off: it is still running, or it has ended through its persist step.
C21_InFlightCycleCompletes ==
  inFlightAtShutdown =>
    \/ InCycle
    \/ pc \in {"wait", "exited"} /\ writeCount = 1

\* C22: Stop has not closed the store while checkResources is executing.
C22_StoreOpenDuringCycle ==
  ~ (storeClosed /\ InCycle)

\* C23: from the loop waiting with the context cancelled or the stop channel
\* closed, no step starts a cycle.
C23_NoCycleAfterStopSignal ==
  [][(pc = "wait" /\ (ctxDone \/ stopClosed)) => pc' # "enumerate"]_vars

\* A step that enters checkResources.
CycleEntered ==
  /\ pc' = "enumerate"
  /\ regionIdx' = 1
  /\ ~ (pc = "enumerate" /\ regionIdx = 1)

\* C24: checkResources is entered only from Start's preamble or from the
\* select of the loop, that is after the previous cycle has returned, also
\* when a tick has arrived while that cycle was running.
C24_CyclesNeverOverlap ==
  [][CycleEntered => (pc \in {"start", "wait"} /\ cycleResult # "running")]_vars

C24_Witness ==
  /\ pc = "write"
  /\ tickPending
  /\ everWritten
  /\ mainPc = "waiting"

\* The loop of Start is running and no stop signal has been raised.
Running ==
  /\ pc \notin {"start", "exited", "killed"}
  /\ ~ ctxDone
  /\ ~ stopClosed

\* C25: the loop never waits for a tick before the initial cycle has run,
\* and while it is not stopped every wait can end with a tick that starts
\* the next cycle.
C25_InitialCycleThenTicks ==
  /\ cycleResult = "none" => pc \in {"start", "exited", "killed"}
  /\ pc = "wait" => cycleResult \notin {"none", "running"}
  /\ (Running /\ pc = "wait") => ENABLED Tick

C25_Witness ==
  /\ Running
  /\ pc = "isFirstRun"
  /\ everWritten
  /\ ~ tickPending
  /\ redisList # <<>>

\* The errors checkResources returns.
CycleErrors == {"err_isFirstRun", "err_initial_write", "err_read", "err_write"}

\* C26: while no stop signal is raised, a cycle that has ended with an error
\* or with a failed notification leaves the loop waiting for the next tick,
\* which can start a new cycle.
C26_CycleErrorKeepsLoop ==
  (/\ ~ ctxDone
   /\ ~ stopClosed
   /\ cycleResult \in CycleErrors \/ (notifyFailed /\ ~ InCycle)) =>
    /\ pc = "wait"
    /\ startErr = "none"
    /\ ENABLED Tick

C26_Witness ==
  /\ Running
  /\ pc = "wait"
  /\ cycleResult = "err_read"
  /\ redisList # <<>>

\* C27: a failure of the discovery of the regions leaves the loop running.
C27_DiscoveryFailureKeepsLoop ==
  startErr = "err_regions" => pc # "exited"

\* C28: a client reading the key while SetResourceARNs replaces a non-empty
\* list by a non-empty list sees neither the key absent nor an empty list.
C28_NoTransientEmptyState ==
  (/\ storeCall.state = "exec"
   /\ storeCall.before # <<>>
   /\ storeCall.arns # <<>>
   /\ reader # <<>>) =>
    /\ reader[1] = "IsFirstRun" => reader[2] = FALSE
    /\ reader[1] = "GetResourceARNs" => reader[2] # <<>>

\* C29: when SetResourceARNs has returned nil the stored list holds exactly
\* the elements given, each as often as given, whatever was stored before,
\* as the whole-call SetResourceARNs says; and GetResourceARNs answers an
\* absent key with the empty list.
C29_WriteOverwrites ==
  /\ storeCall.state = "returned_nil" =>
       /\ redisList = SetResourceARNs(storeCall.before, storeCall.arns, "ok")
       /\ Range(GetStoredARNs(redisList)) = Range(storeCall.arns)
       /\ Len(GetStoredARNs(redisList)) = Len(storeCall.arns)
  /\ (reader # <<>> /\ reader[1] = "GetResourceARNs" /\ reader[3]) => reader[2] = <<>>

C29_Witness ==
  /\ storeCall.state = "returned_nil"
  /\ storeCall.before = <<ArnV1, ArnI1>>
  /\ storeCall.arns = <<ArnV1>>
  /\ reader = <<"GetResourceARNs", <<ArnV1>>, FALSE>>

\* C30: what compareResources(A, B) reports as added is, as a set, what
\* compareResources(B, A) reports as removed, and compareResources(A, A)
\* reports nothing.
C30_CompareIsAntisymmetric ==
  (fn = "compareResources" /\ result # <<>>) =>
    LET A == args[1]
        B == args[2]
    IN /\ Range(result[2][1]) = Range(compareResources(B, A)[2])
       /\ Range(result[2][2]) = Range(compareResources(B, A)[1])
       /\ A = B => result[2] = <<<<>>, <<>>>>
       /\ compareResources(A, A) = <<<<>>, <<>>>>

C30_Witness ==
  /\ fn = "compareResources"
  /\ args = <<<<ArnI1, ArnV1>>, <<ArnV1, ArnI2>>>>
  /\ result = <<"returned", <<<<ArnI2>>, <<ArnI1>>>>>>

\* The regions the configuration selects among the discovered ones.
SelectedRegions ==
  {r \in Range(DiscoveredRegions) :
     IF regionsInclude # <<>> THEN r \in Range(regionsInclude)
     ELSE r \notin Range(regionsExclude)}

\* The place of a region in the discovery's answer.
DiscoveryIndex(r) == CHOOSE i \in 1..Len(DiscoveredRegions) : DiscoveredRegions[i] = r

\* Start has got the regions to monitor and entered its first check.
RegionsResolved == cycleResult # "none"

\* C37: the regions Start works with are the selected regions, each once, in
\* discovery order; when no region is selected Start has returned an error;
\* and no step after Start's preamble changes the list.
C37_RegionsSelectedOnce ==
  /\ [](RegionsResolved =>
          /\ Range(regions) = SelectedRegions
          /\ regions # <<>>
          /\ \A i, j \in 1..Len(regions) :
               i < j => DiscoveryIndex(regions[i]) < DiscoveryIndex(regions[j]))
  /\ [](SelectedRegions = {} =>
          /\ ~ RegionsResolved
          /\ pc = "exited" => startErr \in {"err_account", "err_regions"})
  /\ [][pc # "start" => regions' = regions]_vars

C37_Witness ==
  /\ regionsInclude = <<R2, R1>>
  /\ regionsExclude = <<R1>>
  /\ regions = <<R1, R2>>
  /\ pc = "wait"
  /\ everWritten
  /\ regionIdx = 3

\* The list is in ascending byte order.
IsSorted(s) == \A i \in 1..(Len(s) - 1) : ~ StrLess(s[i + 1], s[i])

\* C31: the added and the removed list of a cycle's comparison, and of the
\* notification sent from it, have no identifier in common.
C31_AddedAndRemovedDisjoint ==
  /\ Range(notified[1]) \cap Range(notified[2]) = {}
  /\ pc = "compare" =>
       LET diff == compareResources(previousARNs, currentARNs)
       IN Range(diff[1]) \cap Range(diff[2]) = {}

C31_Witness ==
  /\ notifyCount = 1
  /\ notified[1] # <<>>
  /\ notified[2] # <<>>
  /\ Range(previousARNs) \cap Range(currentARNs) # {}

\* C32: the added and the removed list of every notification sent are in
\* ascending order.
C32_NotifiedListsSorted ==
  notifyCount > 0 => IsSorted(notified[1]) /\ IsSorted(notified[2])

C34_FailedWriteLeavesState ==
  /\ (path = "diff" /\ pc \in {"compare", "write"}) => writeCount = 0
  /\ (path = "diff" /\ notifyCount > 0 /\ cycleResult = "err_write") =>
       redisList = storeAtStart

\* C35: a cycle that completes without error leaves the stored set equal to
\* its current set, the next cycle starts from that stored set, and a cycle
\* that completes without error with the current set it started from in the
\* store has not invoked the notifier.
C35_UnchangedSetIsSilent ==
  /\ [](cycleResult = "ok" => Range(redisList) = Range(currentARNs))
  /\ [][(cycleResult = "ok" /\ pc = "wait" /\ pc' = "enumerate") =>
          Range(storeAtStart') = Range(currentARNs)]_vars
  /\ []((cycleResult = "ok" /\ Range(storeAtStart) = Range(currentARNs)) =>
          notifyCount = 0)

C35_Witness ==
  /\ cycleResult = "ok"
  /\ path = "diff"
  /\ Len(currentARNs) >= 2
  /\ Range(storeAtStart) = Range(currentARNs)
  /\ notifyCount = 0
  /\ pc = "wait"

\* Fields that can follow the sixth field of an identifier or a pattern.
FieldsBeyondSix == {<<"i-1">>, <<"i-2">>, <<"otherdb">>, <<"*">>, <<>>}

\* The strings that have the first six fields of s (which has six or more)
\* followed by no field, by one field or by two.
SameSixFields(s) ==
  LET six == SubSeq(Split(s), 1, 6)
  IN {Join(six)}
     \cup {Join(Append(six, f)) : f \in FieldsBeyondSix}
     \cup {Join(six \o <<f, g>>) : f, g \in FieldsBeyondSix}

C38_StartEventuallyReturns ==
  /\ (ctxDone \/ stopClosed) ~> (pc = "exited" /\ startErr # "none")
  /\ []((pc = "exited" /\ startErr = "err_ctx") => ctxDone)
  /\ []((pc = "exited" /\ startErr = "nil") => stopClosed)

====
